---- MODULE Spec2Model ----
(***************************************************************************)
(* Edufin backend: the quote service (RealTimeStockService) and the        *)
(* simulated-trading routes (execute_trade, execute_trade_v2,              *)
(* get_portfolio).                                                         *)
(*                                                                         *)
(* Money is counted in cents (the code rounds quotes to two decimals).     *)
(* Time is counted in seconds.  A symbol is the tuple of its character     *)
(* codes, so that str.upper() and sum(ord(c) ...) are computed.            *)
(***************************************************************************)
EXTENDS Integers, Sequences, FiniteSets, TLC

VARIABLES
    now,          \* datetime.now(), seconds
    cache,        \* RealTimeStockService.cache: "price_<SYMBOL>" -> (data, timestamp)
    chartCache,   \* RealTimeStockService.price_history_cache: "chart_<symbol>_<period>" -> (data, timestamp)
    fetches,      \* upstream quote fetches issued so far, per ticker symbol
    chartFetches, \* upstream history fetches issued so far, per chart key
    portfolios,   \* table portfolios: the rows of each user, in id order
    holdings,     \* table holdings, rows of a user's portfolio in id order
    txlog,        \* table transactions, in id order
    req,          \* the requests in flight, one per slot
    last          \* the request that completed last, with its response

vars == <<now, cache, chartCache, fetches, chartFetches, portfolios, holdings, txlog, req, last>>

----------------------------------------------------------------------------
(* Bounds of the model *)

MaxReq == 2          \* request slots that can be in flight together
MaxTx == 2           \* committed transactions explored
MaxFetch == 2        \* upstream fetches explored
MaxClock == 60       \* last clock value explored
TickStep == 15       \* seconds between two observations of the clock

----------------------------------------------------------------------------
(* Program constants *)

QuoteTTL == 30            \* timedelta(seconds=30)
ChartTTL == 60            \* cache_duration = timedelta(minutes=1)
DefaultCash == 10000000   \* virtual_cash default 100000.0
FallbackPrice == 15025    \* get_stock price of an unknown symbol, 150.25
TolerancePct == 2        \* price_deviation > 0.02, in percent

None == [none |-> TRUE]

----------------------------------------------------------------------------
(* Symbols as tuples of character codes *)

AAPL == <<65, 65, 80, 76>>
aapl == <<97, 97, 112, 108>>
TSLA == <<84, 83, 76, 65>>
EmptySym == << >>

\* str.upper() on ASCII letters
UpperChar(c) == IF c >= 97 /\ c <= 122 THEN c - 32 ELSE c

Upper(s) == [i \in 1..Len(s) |-> UpperChar(s[i])]

RECURSIVE SumOrd(_)
\* sum(ord(c) for c in symbol)
SumOrd(s) == IF s = << >> THEN 0 ELSE Head(s) + SumOrd(Tail(s))

\* base_price = 100 + (sum(ord(c) for c in symbol) % 200), in cents
BasePrice(s) == (100 + (SumOrd(s) % 200)) * 100

Max(a, b) == IF a >= b THEN a ELSE b

Abs(x) == IF x < 0 THEN 0 - x ELSE x

----------------------------------------------------------------------------
(* Inputs explored *)

Symbols == {AAPL, aapl}
Tickers == {Upper(s) : s \in Symbols}
Periods == {"1D", "3M"}
ChartKeys == Symbols \X Periods
Users == {"u1"}

\* <<previous close, last close>> of the histories the upstream may report, in cents
UpstreamBars == {<<5000000, 5000000>>, <<5000000, 10000000>>}

\* what one upstream call can do: raise, return an empty history, or return bars
UpstreamOutcomes ==
    {[kind |-> "raise", bar |-> <<0, 0>>], [kind |-> "empty", bar |-> <<0, 0>>]}
        \cup {[kind |-> "ok", bar |-> b] : b \in UpstreamBars}

\* (np.random.random() - 0.5) * 4 lies in [-2, 2): the rounded change, in cents
MockChanges == {-200, 199}

Req == 1..MaxReq

----------------------------------------------------------------------------
(* RealTimeStockService: quotes *)

\* _generate_mock_price that leaves the base price out of the price
GenerateMockPriceNoBase(symbol, c, t) ==
    [symbol |-> symbol, price |-> c, change |-> c,
     source |-> "mock", timestamp |-> t]

\* _generate_mock_price with its random change drawn as c, at time t
GenerateMockPrice(symbol, c, t) ==
    [symbol |-> symbol,
     price |-> Max(100, BasePrice(symbol) + c),
     change |-> c,
     source |-> "mock",
     timestamp |-> t]

\* the data dict built from a non-empty upstream history: bar = <<previous close, last close>>
LiveQuote(symbol, bar, t) ==
    [symbol |-> symbol, price |-> bar[2], change |-> bar[2] - bar[1],
     source |-> "yfinance", timestamp |-> t]

\* a cache check that forgets the age of the entry
FreshAnyAge(entry, t) == entry # None

\* the cache check of get_real_time_price: the entry is present and younger than the TTL
Fresh(entry, t) == entry # None /\ t - entry.timestamp < QuoteTTL

\* the synthetic results a failed fetch can return
MockQuotes(symbol, t) == {GenerateMockPrice(symbol, c, t) : c \in MockChanges}

----------------------------------------------------------------------------
(* Ledger arithmetic.  avg_price is a Float column: it is kept here as the  *)
(* exact fraction <<numerator, denominator>> of cents.                      *)

RECURSIVE Gcd(_, _)
Gcd(a, b) == IF b = 0 THEN a ELSE Gcd(b, a % b)

Reduce(f) ==
    LET g == Gcd(Abs(f[1]), Abs(f[2]))
        sgn == IF f[2] < 0 THEN -1 ELSE 1
    IN  IF g = 0 THEN f ELSE <<sgn * (f[1] \div g), sgn * (f[2] \div g)>>

Whole(p) == <<p, 1>>

\* an average cost that a further BUY leaves as it was
UnweightedAvg(avg, quantity, total_amount, total_shares) == avg

\* holding.avg_price = ((holding.avg_price * holding.quantity) + total_amount) / total_shares
WeightedAvg(avg, quantity, total_amount, total_shares) ==
    Reduce(<<avg[1] * quantity + total_amount * avg[2], avg[2] * total_shares>>)

\* db.query(Holding).filter(portfolio_id, symbol).first(): index of the first row, 0 if none
RECURSIVE FirstIdxFrom(_, _, _)
FirstIdxFrom(hs, symbol, i) ==
    IF i > Len(hs) THEN 0
    ELSE IF hs[i].symbol = symbol THEN i
    ELSE FirstIdxFrom(hs, symbol, i + 1)

\* a lookup that finds no row
NoHolding(hs, symbol) == 0

FirstHolding(hs, symbol) == FirstIdxFrom(hs, symbol, 1)

\* db.delete(holding)
RemoveAt(hs, i) == [j \in 1..(Len(hs) - 1) |-> IF j < i THEN hs[j] ELSE hs[j + 1]]

NewHolding(symbol, quantity, avg) ==
    [symbol |-> symbol, quantity |-> quantity, avg_price |-> avg]

NewTransaction(user, symbol, action, quantity, price, total_amount) ==
    [user |-> user, symbol |-> symbol, action |-> action, quantity |-> quantity,
     price |-> price, total_amount |-> total_amount]

NoTx == NewTransaction("", << >>, << >>, 0, 0, 0)

\* actions as tuples of character codes
BUY == <<66, 85, 89>>
SELL == <<83, 69, 76, 76>>
HOLD == <<72, 79, 76, 68>>
buy == <<98, 117, 121>>

Outcome(status, cash, hs, tx) == [status |-> status, cash |-> cash, hs |-> hs, tx |-> tx]

\* The BUY branch of a trade route, from the funds check to the holding update.
\* loaded is portfolio.virtual_cash as the request's session holds it.
BuyBranch(user, loaded, hs, symbol, quantity, price) ==
    LET total_amount == price * quantity
        i == FirstHolding(hs, symbol)
        tx == NewTransaction(user, symbol, BUY, quantity, price, total_amount)
    IN  IF loaded < total_amount
        THEN Outcome("insufficient_funds", loaded, hs, NoTx)
        ELSE IF i # 0
        THEN LET total_shares == hs[i].quantity + quantity
             IN  IF total_shares = 0
                 THEN Outcome("exception", loaded - total_amount, hs, NoTx)
                      \* ZeroDivisionError, raised after the debit of line 142
                 ELSE Outcome("ok", loaded - total_amount,
                              [hs EXCEPT ![i] = [@ EXCEPT
                                  !.avg_price = WeightedAvg(hs[i].avg_price, hs[i].quantity,
                                                            total_amount, total_shares),
                                  !.quantity = total_shares]],
                              tx)
        ELSE Outcome("ok", loaded - total_amount,
                     Append(hs, NewHolding(symbol, quantity, Whole(price))), tx)

\* The SELL branch of a trade route, from the holding query to the delete.
SellBranch(user, loaded, hs, symbol, quantity, price) ==
    LET total_amount == price * quantity
        i == FirstHolding(hs, symbol)
        tx == NewTransaction(user, symbol, SELL, quantity, price, total_amount)
    IN  IF i = 0 \/ hs[i].quantity < quantity
        THEN Outcome("insufficient_shares", loaded, hs, NoTx)
        ELSE Outcome("ok", loaded + total_amount,
                     IF hs[i].quantity - quantity = 0
                     THEN RemoveAt(hs, i)
                     ELSE [hs EXCEPT ![i].quantity = @ - quantity],
                     tx)

\* a route that stores the rows of its session however the trade ended
PersistAlways(out, cash, hs) == [cash |-> out.cash, hs |-> out.hs]

\* What the database holds after the route ends: db.commit() stores the session's
\* rows after a settled trade; db.rollback(), or the close of the session after an
\* HTTPException, leaves the rows that were stored before.
Persist(out, cash, hs) ==
    IF out.status = "ok" THEN [cash |-> out.cash, hs |-> out.hs]
    ELSE [cash |-> cash, hs |-> hs]

\* a log that keeps only its latest record
RecordTransactionOverwriting(log, out) ==
    IF out.status # "ok" THEN log
    ELSE IF log = << >> THEN <<out.tx>>
    ELSE [log EXCEPT ![Len(log)] = out.tx]

\* db.add(transaction) followed by db.commit(): reached only by a settled trade
RecordTransaction(log, out) ==
    IF out.status = "ok" THEN Append(log, out.tx) ELSE log

----------------------------------------------------------------------------
(* Static quotes of main.py and the portfolio read *)

MSFT == <<77, 83, 70, 84>>

\* MOCK_STOCKS, the prices in cents
MockStocks == [k \in {AAPL, TSLA, MSFT} |->
                 IF k = AAPL THEN 18252 ELSE IF k = TSLA THEN 24842 ELSE 37885]

\* get_stock(symbol)["price"]
GetStockPrice(symbol) ==
    IF Upper(symbol) \in DOMAIN MockStocks THEN MockStocks[Upper(symbol)] ELSE FallbackPrice

\* the demo holdings get_portfolio adds to a portfolio that has none
DemoHoldings ==
    <<NewHolding(AAPL, 10, Whole(15000)), NewHolding(TSLA, 5, Whole(20000))>>

\* get_portfolio, the holdings part
EnsureHoldings(hs) == IF hs = << >> THEN DemoHoldings ELSE hs

\* Portfolio(user_id=..., name="Main Portfolio")
NewPortfolio == [cash |-> DefaultCash]

----------------------------------------------------------------------------
(* Requests *)

NoBody == [none |-> TRUE]

Response(code, detail, path, body) ==
    [code |-> code, detail |-> detail, path |-> path, body |-> body]

NoResponse == Response(0, "", "", NoBody)

\* the price field of a trade request body: absent (default 0.0), a number, or not a number
Numeric(v) == [numeric |-> TRUE, value |-> v]
NonNumeric == [numeric |-> FALSE, value |-> 0]

IdleReq ==
    [pc |-> "idle", op |-> "none", user |-> "", symbol |-> << >>, period |-> "",
     action |-> << >>, quantity |-> 0, price |-> Numeric(0), loaded |-> 0,
     at |-> 0, res |-> NoResponse]

\* price_deviation = abs(price - current_price) / current_price;  price_deviation > 0.02
Deviates(price, current_price) ==
    Abs(price - current_price) * 100 > TolerancePct * current_price

TradeBody(action, symbol, quantity, price, total_amount, remaining_cash, warned) ==
    [action |-> action, symbol |-> symbol, quantity |-> quantity,
     executed_price |-> price, total_amount |-> total_amount,
     remaining_cash |-> remaining_cash, success |-> TRUE, warned |-> warned]

----------------------------------------------------------------------------
(* RealTimeStockService: charts *)

\* period_configs[period]["points"], with the "1M" entry as the default
Points(period) ==
    IF period = "1D" THEN 78
    ELSE IF period = "1W" THEN 5
    ELSE IF period = "1M" THEN 20
    ELSE IF period = "3M" THEN 12
    ELSE IF period = "1Y" THEN 12
    ELSE 20

\* len(_generate_labels(period, points))
LabelCount(period, points) ==
    IF period = "1D" THEN points
    ELSE IF period = "1W" THEN 5
    ELSE IF period = "1M" THEN points
    ELSE IF period = "3M" THEN 3
    ELSE IF period = "1Y" THEN 12
    ELSE points

\* _generate_mock_chart_data: the series is kept by its sizes and its first price
GenerateMockChartData(symbol, period, t) ==
    [symbol |-> symbol, period |-> period,
     labels |-> LabelCount(period, Points(period)),
     prices |-> Points(period),
     first_price |-> BasePrice(symbol),
     source |-> "mock", timestamp |-> t]

\* period_configs[period]["volatility"], in tenths, with the "1M" entry as the default
Volatility(period) ==
    IF period = "1D" THEN 5
    ELSE IF period = "1W" THEN 20
    ELSE IF period = "1M" THEN 50
    ELSE IF period = "3M" THEN 80
    ELSE IF period = "1Y" THEN 150
    ELSE 50

\* the lowest price of a synthetic series, in cents: max(0.01, ...)
PriceFloor == 1

RECURSIVE RealisticPricesFrom(_, _, _, _, _, _)
\* the loop of _generate_realistic_prices from the prices built so far.  The draws
\* are np.random.random() - 0.5 in hundredths, taken in turn; prices and momentum
\* are in cents, the change being cut to whole cents at each step.
RealisticPricesFrom(prices, momentum, length, volatility, draws, floor) ==
    IF Len(prices) >= length THEN prices
    ELSE LET d == draws[((Len(prices) - 1) % Len(draws)) + 1]
             random_change == (10 * d * volatility + 3 * momentum * volatility) \div 100
             new_price == Max(floor, prices[Len(prices)] + random_change)
         IN  RealisticPricesFrom(Append(prices, new_price),
                                 (7 * momentum + 3 * random_change) \div 10,
                                 length, volatility, draws, floor)

\* a series that is cut at 0 and not at 0.01
GenerateRealisticPricesFloorZero(length, base_price, volatility, draws) ==
    RealisticPricesFrom(<<base_price>>, 0, length, volatility, draws, 0)

\* _generate_realistic_prices
GenerateRealisticPrices(length, base_price, volatility, draws) ==
    RealisticPricesFrom(<<base_price>>, 0, length, volatility, draws, PriceFloor)

\* the labels and the prices of _generate_mock_chart_data, item by item: the labels
\* by their count, the prices as _generate_realistic_prices returns them
MockChartSeries(symbol, period, draws) ==
    [labels |-> LabelCount(period, Points(period)),
     series |-> GenerateRealisticPrices(Points(period), BasePrice(symbol),
                                        Volatility(period), draws)]

\* the data dict built from a non-empty upstream history of n bars
LiveChart(symbol, period, bar, t) ==
    [symbol |-> symbol, period |-> period, labels |-> Len(bar), prices |-> Len(bar),
     first_price |-> bar[1], source |-> "yfinance", timestamp |-> t]

\* the cache check of get_chart_data
FreshChart(entry, t) == entry # None /\ t - entry.timestamp < ChartTTL

Entry(data, t) == [data |-> data, timestamp |-> t]

----------------------------------------------------------------------------
(* Initial state: an empty service and a registered user.  auth.register   *)
(* commits the user and then, in a second commit, the default portfolio:   *)
(* the user starts with that portfolio, or without one when the second     *)
(* commit did not go through (the case the routes test with                *)
(* "if not portfolio").                                                    *)

Init ==
    /\ now = 0
    /\ cache = [s \in Tickers |-> None]
    /\ chartCache = [k \in ChartKeys |-> None]
    /\ fetches = [s \in Tickers |-> 0]
    /\ chartFetches = [k \in ChartKeys |-> 0]
    /\ portfolios \in [Users -> {<< >>, <<NewPortfolio>>}]
    /\ holdings = [u \in Users |-> << >>]
    /\ txlog = << >>
    /\ req = [r \in Req |-> IdleReq]
    /\ last = IdleReq

RECURSIVE SumOver(_, _)
SumOver(f, S) ==
    IF S = {} THEN 0
    ELSE LET x == CHOOSE y \in S : TRUE IN f[x] + SumOver(f, S \ {x})

TotalFetches == SumOver(fetches, Tickers) + SumOver(chartFetches, ChartKeys)

InFlightTrades == {r \in Req : req[r].op = "trade_v2" /\ req[r].pc \in {"gather", "history2"}}

DbVars == <<portfolios, holdings, txlog>>
QuoteVars == <<cache, fetches>>
ChartVars == <<chartCache, chartFetches>>

\* rq answered with res, at the current time
Done(rq, res) == [rq EXCEPT !.pc = "done", !.res = res, !.at = now]

\* request r sends its response and leaves its slot
Complete(r, rq, res) ==
    /\ req' = [req EXCEPT ![r] = IdleReq]
    /\ last' = Done(rq, res)

\* request r waits at an await
Suspend(r, rq, pc) ==
    /\ req' = [req EXCEPT ![r] = [rq EXCEPT !.pc = pc]]
    /\ UNCHANGED last

\* a new request takes the first free slot
Free(r) == req[r].pc = "idle" /\ \A q \in Req : q < r => req[q].pc # "idle"

----------------------------------------------------------------------------
(* execute_trade_v2, from the price it awaited to its response *)

\* lines 129-178: the outcome of the settlement for the awaited price
V2Outcome(rq, current_price, hs) ==
    IF ~rq.price.numeric \/ current_price = 0
    THEN Outcome("exception", rq.loaded, hs, NoTx)    \* TypeError, ZeroDivisionError
    ELSE IF rq.action = BUY
    THEN BuyBranch(rq.user, rq.loaded, hs, rq.symbol, rq.quantity, current_price)
    ELSE SellBranch(rq.user, rq.loaded, hs, rq.symbol, rq.quantity, current_price)

\* the response of execute_trade_v2 for an outcome
V2Response(rq, current_price, out, path) ==
    IF out.status = "ok"
    THEN Response(200, "success", path,
                  TradeBody(rq.action, rq.symbol, rq.quantity, current_price,
                            current_price * rq.quantity, out.cash,
                            Deviates(rq.price.value, current_price)))
    ELSE IF out.status = "insufficient_funds"
    THEN Response(400, "Insufficient funds", path, NoBody)
    ELSE IF out.status = "insufficient_shares"
    THEN Response(400, "Insufficient shares", path, NoBody)
    ELSE Response(500, "Trade execution failed", path, NoBody)

\* lines 129-213 for request r, resumed with quote q: commit, portfolio refresh, response
FinishV2(r, rq, q, path) ==
    LET out == V2Outcome(rq, q.price, holdings[rq.user])
        db == Persist(out, portfolios[rq.user][1].cash, holdings[rq.user])
    IN  /\ Complete(r, rq, V2Response(rq, q.price, out, path))
        /\ portfolios' = [portfolios EXCEPT ![rq.user][1].cash = db.cash]
        /\ holdings' = [holdings EXCEPT ![rq.user] =
                           IF out.status = "ok" THEN EnsureHoldings(db.hs) ELSE db.hs]
        /\ txlog' = RecordTransaction(txlog, out)

\* get_real_time_price returns q to the route that awaited it
FinishPrice(r, rq, q, path) ==
    /\ Complete(r, rq, Response(200, "", path, q))
    /\ UNCHANGED DbVars

Resume(r, rq, q, path) ==
    IF rq.op = "trade_v2" THEN FinishV2(r, rq, q, path) ELSE FinishPrice(r, rq, q, path)

----------------------------------------------------------------------------
(* RealTimeStockService.get_real_time_price, one action per stretch between *)
(* two awaits                                                               *)

\* lines 23-39 for a caller rq: return the fresh entry, or start the upstream calls and wait
EnterGetRealTimePrice(r, rq) ==
    LET sym == Upper(rq.symbol)
    IN  IF Fresh(cache[sym], now)
        THEN /\ Resume(r, rq, cache[sym].data, "cache")
             /\ UNCHANGED <<cache, fetches>>
        ELSE /\ TotalFetches < MaxFetch
             /\ Suspend(r, rq, "gather")
             /\ fetches' = [fetches EXCEPT ![sym] = @ + 1]
             /\ UNCHANGED <<cache, DbVars>>

\* lines 61-78: build the data, store it, return it
ReturnLive(r, bar) ==
    LET sym == Upper(req[r].symbol)
        data == LiveQuote(sym, bar, now)
    IN  /\ cache' = [cache EXCEPT ![sym] = Entry(data, now)]
        /\ Resume(r, req[r], data, "live")

\* lines 44 and 82: return self._generate_mock_price(symbol)
ReturnMock(r) ==
    /\ \E q \in MockQuotes(Upper(req[r].symbol), now) : Resume(r, req[r], q, "mock")
    /\ UNCHANGED cache

\* GET /api/stocks/price/{symbol}
CallPrice(r, symbol) ==
    /\ Free(r)
    /\ EnterGetRealTimePrice(r, [IdleReq EXCEPT !.op = "price", !.symbol = symbol])
    /\ UNCHANGED <<now, ChartVars>>

\* asyncio.gather(info_task, history_task) completes with outcome o (lines 39-43, 80-82)
GatherReturn(r, o) ==
    /\ req[r].pc = "gather"
    /\ IF o.kind = "ok" THEN ReturnLive(r, o.bar)
       ELSE IF o.kind = "raise" THEN ReturnMock(r)
       ELSE /\ Suspend(r, req[r], "history2")
            /\ UNCHANGED <<cache, DbVars>>
    /\ UNCHANGED <<now, fetches, ChartVars>>

\* stock.history(period="2d") completes with outcome o (lines 42-44, 80-82)
History2Return(r, o) ==
    /\ req[r].pc = "history2"
    /\ IF o.kind = "ok" THEN ReturnLive(r, o.bar) ELSE ReturnMock(r)
    /\ UNCHANGED <<now, fetches, ChartVars>>

----------------------------------------------------------------------------
(* RealTimeStockService.get_chart_data *)

\* GET /api/stocks/chart/{symbol}: lines 109-130
CallChart(r, symbol, period) ==
    LET key == <<symbol, period>>
        rq == [IdleReq EXCEPT !.op = "chart", !.symbol = symbol, !.period = period]
    IN  /\ Free(r)
        /\ IF FreshChart(chartCache[key], now)
           THEN /\ Complete(r, rq, Response(200, "", "cache", chartCache[key].data))
                /\ UNCHANGED chartFetches
           ELSE /\ TotalFetches < MaxFetch
                /\ Suspend(r, rq, "chart_history")
                /\ chartFetches' = [chartFetches EXCEPT ![key] = @ + 1]
        /\ UNCHANGED <<now, chartCache, QuoteVars, DbVars>>

\* stock.history(period, interval) completes with outcome o (lines 132-160)
ChartReturn(r, o) ==
    LET rq == req[r]
        key == <<rq.symbol, rq.period>>
        live == LiveChart(rq.symbol, rq.period, o.bar, now)
    IN  /\ rq.pc = "chart_history"
        /\ IF o.kind = "ok"
           THEN /\ chartCache' = [chartCache EXCEPT ![key] = Entry(live, now)]
                /\ Complete(r, rq, Response(200, "", "live", live))
           ELSE /\ Complete(r, rq, Response(200, "", "mock",
                                       GenerateMockChartData(rq.symbol, rq.period, now)))
                /\ UNCHANGED chartCache
        /\ UNCHANGED <<now, chartFetches, QuoteVars, DbVars>>

----------------------------------------------------------------------------
(* Trade routes and the portfolio read *)

\* POST /api/simulation/trade/v2, lines 115-128
CallV2(r, user, symbol, action, quantity, price) ==
    LET sym == Upper(symbol)
        act == Upper(action)
        rq == [IdleReq EXCEPT !.op = "trade_v2", !.user = user, !.symbol = sym,
                              !.action = act, !.quantity = quantity, !.price = price]
    IN  /\ Free(r)
        /\ Len(txlog) + Cardinality(InFlightTrades) < MaxTx
        /\ IF sym = << >> \/ act \notin {BUY, SELL} \/ quantity <= 0
           THEN /\ Complete(r, rq, Response(400, "Invalid trade parameters", "", NoBody))
                /\ UNCHANGED <<QuoteVars, DbVars>>
           ELSE IF portfolios[user] = << >>
           THEN /\ Complete(r, rq, Response(404, "Portfolio not found", "", NoBody))
                /\ UNCHANGED <<QuoteVars, DbVars>>
           ELSE EnterGetRealTimePrice(r, [rq EXCEPT !.loaded = portfolios[user][1].cash])
        /\ UNCHANGED <<now, ChartVars>>

\* the response execute_trade gives when it swallowed an exception (lines 717-726)
V1SwallowedBody(rq) ==
    TradeBody(Upper(rq.action), rq.symbol, rq.quantity, FallbackPrice,
              FallbackPrice * rq.quantity, 850000, FALSE)

\* POST /api/simulation/trade, lines 635-726
CallV1(r, user, symbol, action, quantity) ==
    LET rq == [IdleReq EXCEPT !.op = "trade", !.user = user, !.symbol = symbol,
                              !.action = action, !.quantity = quantity]
        current_price == GetStockPrice(symbol)
        cash == portfolios[user][1].cash
        hs == holdings[user]
        out == IF Upper(action) = BUY
               THEN BuyBranch(user, cash, hs, Upper(symbol), quantity, current_price)
               ELSE IF Upper(action) = SELL
               THEN SellBranch(user, cash, hs, Upper(symbol), quantity, current_price)
               ELSE Outcome("invalid_action", cash, hs, NoTx)
        res == IF out.status = "ok"
               THEN Response(200, "success", "",
                             TradeBody(Upper(action), symbol, quantity, current_price,
                                       current_price * quantity, out.cash, FALSE))
               ELSE IF out.status = "insufficient_funds"
               THEN Response(400, "Insufficient funds", "", NoBody)
               ELSE IF out.status = "insufficient_shares"
               THEN Response(400, "Insufficient shares", "", NoBody)
               ELSE IF out.status = "invalid_action"
               THEN Response(400, "Invalid action", "", NoBody)
               ELSE Response(200, "swallowed", "", V1SwallowedBody(rq))
    IN  /\ Free(r)
        /\ Len(txlog) + Cardinality(InFlightTrades) < MaxTx
        /\ IF portfolios[user] = << >>
           THEN /\ Complete(r, rq, Response(404, "Portfolio not found", "", NoBody))
                /\ UNCHANGED DbVars
           ELSE LET db == Persist(out, cash, hs)
                IN  /\ Complete(r, rq, res)
                    /\ portfolios' = [portfolios EXCEPT ![user][1].cash = db.cash]
                    /\ holdings' = [holdings EXCEPT ![user] = db.hs]
                    /\ txlog' = RecordTransaction(txlog, out)
        /\ UNCHANGED <<now, QuoteVars, ChartVars>>

\* GET /api/simulation/portfolio, lines 530-604
CallPortfolio(r, user) ==
    LET rows == IF portfolios[user] = << >> THEN <<NewPortfolio>> ELSE portfolios[user]
        pf == rows[1]
        hs == EnsureHoldings(holdings[user])
        rq == [IdleReq EXCEPT !.op = "portfolio", !.user = user]
    IN  /\ Free(r)
        /\ portfolios' = [portfolios EXCEPT ![user] = rows]
        /\ holdings' = [holdings EXCEPT ![user] = hs]
        /\ Complete(r, rq, Response(200, "", "", [virtual_cash |-> pf.cash, holdings |-> hs]))
        /\ UNCHANGED <<now, txlog, QuoteVars, ChartVars>>

----------------------------------------------------------------------------
(* Environment *)

\* time passes
Tick ==
    /\ now + TickStep <= MaxClock
    /\ now' = now + TickStep
    /\ UNCHANGED <<QuoteVars, ChartVars, DbVars, req, last>>

----------------------------------------------------------------------------
(* RealTimeStockService.get_market_status.  datetime.now() is read as a     *)
(* weekday (Monday is 0, Sunday is 6), an hour and a minute.                *)

Weekdays == 0..6
Hours == {0, 9, 10, 15, 16, 23}
Minutes == {0, 29, 30, 59}

\* is_open, lines 278-280
IsOpen(weekday, hour, minute) ==
    /\ 1 <= weekday /\ weekday <= 5
    /\ \/ hour = 9 /\ minute >= 30
       \/ 10 <= hour /\ hour < 16

\* a next open that is always 09:30 of the current day
GetNextMarketOpenToday(weekday, hour) ==
    [days |-> 0, weekday |-> weekday, hour |-> 9, minute |-> 30]

\* _get_next_market_open: the day, counted from today, and the time of the next open
GetNextMarketOpen(weekday, hour) ==
    LET days == IF weekday >= 5 THEN (7 - weekday) % 7
                ELSE IF hour >= 16 THEN 1
                ELSE 0
    IN  [days |-> days, weekday |-> (weekday + days) % 7, hour |-> 9, minute |-> 30]

\* the dict get_market_status returns; the timestamp is kept as its three readings
GetMarketStatus(weekday, hour, minute) ==
    [is_open |-> IsOpen(weekday, hour, minute),
     status |-> IF IsOpen(weekday, hour, minute) THEN "OPEN" ELSE "CLOSED",
     weekday |-> weekday, hour |-> hour, minute |-> minute,
     next_open |-> GetNextMarketOpen(weekday, hour)]

\* GET /api/market/status, answered at weekday, hour:minute
CallMarketStatus(r, weekday, hour, minute) ==
    /\ Free(r)
    /\ Complete(r, [IdleReq EXCEPT !.op = "market"],
                Response(200, "", "", GetMarketStatus(weekday, hour, minute)))
    /\ UNCHANGED <<now, QuoteVars, ChartVars, DbVars>>

----------------------------------------------------------------------------
(* The synthetic generator, applied directly *)

\* the symbols the generator is applied to, the empty string among them
SyntheticSymbols == {AAPL, aapl, TSLA, EmptySym}

\* the periods of period_configs, and one that is not among them
ChartPeriods == {"1D", "1W", "1M", "3M", "1Y"}
AnyPeriods == ChartPeriods \cup {"5Y"}

\* np.random.random() - 0.5 in hundredths: the lowest, the middle and the highest draw
Draws == {-50, 0, 49}

\* the draws of a series: two draws taken in turn
DrawPatterns == {<<a, b>> : a \in Draws, b \in Draws}

\* _generate_mock_price(symbol), its random change drawn as c
CallMockPrice(r, symbol, c) ==
    /\ Free(r)
    /\ Complete(r, [IdleReq EXCEPT !.op = "mock_price", !.symbol = symbol],
                Response(200, "", "", GenerateMockPrice(symbol, c, now)))
    /\ UNCHANGED <<now, QuoteVars, ChartVars, DbVars>>

\* _generate_mock_chart_data(symbol, period), its random draws being draws
CallMockChart(r, symbol, period, draws) ==
    /\ Free(r)
    /\ Complete(r, [IdleReq EXCEPT !.op = "mock_chart", !.symbol = symbol, !.period = period],
                Response(200, "", "", MockChartSeries(symbol, period, draws)
                                          @@ GenerateMockChartData(symbol, period, now)))
    /\ UNCHANGED <<now, QuoteVars, ChartVars, DbVars>>

----------------------------------------------------------------------------
(* Inputs of the trade routes *)

TradeSymbols == {aapl}
TradeActions == {buy, SELL, HOLD}
Quantities == {-1, 0, 1, 2}
ClientPrices == {Numeric(5000000), NonNumeric}

Next ==
    \/ \E r \in Req, s \in Symbols : CallPrice(r, s)
    \/ \E r \in Req, o \in UpstreamOutcomes : GatherReturn(r, o)
    \/ \E r \in Req, o \in UpstreamOutcomes : History2Return(r, o)
    \/ \E r \in Req, s \in Symbols, p \in Periods : CallChart(r, s, p)
    \/ \E r \in Req, o \in UpstreamOutcomes : ChartReturn(r, o)
    \/ \E r \in Req, u \in Users, s \in TradeSymbols \cup {EmptySym}, a \in TradeActions,
          n \in Quantities, p \in ClientPrices : CallV2(r, u, s, a, n, p)
    \/ \E r \in Req, u \in Users, s \in TradeSymbols, a \in TradeActions,
          n \in Quantities : CallV1(r, u, s, a, n)
    \/ \E r \in Req, u \in Users : CallPortfolio(r, u)
    \/ \E r \in Req, d \in Weekdays, h \in Hours, m \in Minutes : CallMarketStatus(r, d, h, m)
    \/ Tick

Spec == Init /\ [][Next]_vars

----------------------------------------------------------------------------
(* The quote service alone: price and chart requests against the upstream *)

NextQuotes ==
    \/ \E r \in Req, s \in Symbols : CallPrice(r, s)
    \/ \E r \in Req, o \in UpstreamOutcomes : GatherReturn(r, o)
    \/ \E r \in Req, o \in UpstreamOutcomes : History2Return(r, o)
    \/ \E r \in Req, s \in Symbols, p \in Periods : CallChart(r, s, p)
    \/ \E r \in Req, o \in UpstreamOutcomes : ChartReturn(r, o)
    \/ Tick

SpecQuotes == Init /\ [][NextQuotes]_vars

\* the quote service with the clock running: time always passes, while the
\* upstream (yfinance, awaited without a timeout) is free never to answer
SpecQuotesFair == SpecQuotes /\ WF_vars(Tick)

(* The ledger: the two trade routes and the portfolio read, with the quote *)
(* service as execute_trade_v2 drives it                                   *)

NextLedger ==
    \/ \E r \in Req, o \in UpstreamOutcomes : GatherReturn(r, o)
    \/ \E r \in Req, o \in UpstreamOutcomes : History2Return(r, o)
    \/ \E r \in Req, u \in Users, s \in TradeSymbols \cup {EmptySym}, a \in TradeActions,
          n \in Quantities, p \in ClientPrices : CallV2(r, u, s, a, n, p)
    \/ \E r \in Req, u \in Users, s \in TradeSymbols, a \in TradeActions,
          n \in Quantities : CallV1(r, u, s, a, n)
    \/ \E r \in Req, u \in Users : CallPortfolio(r, u)

SpecLedger == Init /\ [][NextLedger]_vars

(* A burst of BUY orders of one share at one price, against a portfolio    *)
(* whose cash pays for exactly MaxTx of them                               *)

BurstBar == <<5000000, 5000000>>
BurstPrice == BurstBar[2]

InitBurst ==
    /\ Init
    /\ portfolios = [u \in Users |-> <<[cash |-> MaxTx * BurstPrice]>>]

NextBurst ==
    \/ \E r \in Req : CallV2(r, "u1", aapl, buy, 1, Numeric(BurstPrice))
    \/ \E r \in Req, k \in {"ok", "empty"} : GatherReturn(r, [kind |-> k, bar |-> BurstBar])
    \/ \E r \in Req : History2Return(r, [kind |-> "ok", bar |-> BurstBar])
    \/ Tick

SpecBurst == InitBurst /\ [][NextBurst]_vars

(* The settlement alone: a chosen set of orders through both trade routes,  *)
(* one of each kind of order the routes tell apart, with the portfolio read *)
(* and the quotes execute_trade_v2 waits for                                *)

Order(symbol, action, quantity, price) ==
    [symbol |-> symbol, action |-> action, quantity |-> quantity, price |-> price]

\* request bodies of POST /api/simulation/trade/v2
SettleOrdersV2 ==
    {Order(aapl, buy, 1, Numeric(5000000)), Order(aapl, buy, 2, Numeric(5000000)),
     Order(aapl, SELL, 1, Numeric(5000000)), Order(aapl, HOLD, 1, Numeric(5000000)),
     Order(aapl, buy, 0, Numeric(5000000)), Order(EmptySym, buy, 1, Numeric(5000000)),
     Order(aapl, buy, 1, NonNumeric)}

\* query parameters of POST /api/simulation/trade
SettleOrdersV1 ==
    {Order(aapl, buy, 1, Numeric(0)), Order(aapl, buy, -1, Numeric(0)),
     Order(aapl, SELL, 1, Numeric(0)), Order(aapl, HOLD, 1, Numeric(0))}

\* what the upstream answers to the quote fetch of a trade
SettleOutcomes ==
    {[kind |-> "raise", bar |-> BurstBar], [kind |-> "ok", bar |-> BurstBar],
     [kind |-> "ok", bar |-> <<5000000, 10000000>>]}

NextSettle ==
    \/ \E r \in Req, o \in SettleOutcomes : GatherReturn(r, o)
    \/ \E r \in Req, o \in SettleOrdersV2 :
          CallV2(r, "u1", o.symbol, o.action, o.quantity, o.price)
    \/ \E r \in Req, o \in SettleOrdersV1 :
          CallV1(r, "u1", o.symbol, o.action, o.quantity)
    \/ \E r \in Req : CallPortfolio(r, "u1")

SpecSettle == Init /\ [][NextSettle]_vars

(* The market clock: status requests at any reading of the wall clock *)

NextMarket ==
    \E r \in Req, d \in Weekdays, h \in Hours, m \in Minutes : CallMarketStatus(r, d, h, m)

SpecMarket == Init /\ [][NextMarket]_vars

(* The synthetic generator: every symbol, period and draw it can be given *)

NextSynthetic ==
    \/ \E r \in Req, s \in SyntheticSymbols, c \in MockChanges : CallMockPrice(r, s, c)
    \/ \E r \in Req, s \in SyntheticSymbols, p \in AnyPeriods, d \in DrawPatterns :
          CallMockChart(r, s, p, d)

SpecSynthetic == Init /\ [][NextSynthetic]_vars

----------------------------------------------------------------------------
(* Properties *)

Cash(u) == portfolios[u][1].cash

HasPortfolio(u) == portfolios[u] # << >>

\* quantity held of a symbol: the first row, 0 when there is none
Held(u, symbol) ==
    LET i == FirstHolding(holdings[u], symbol)
    IN  IF i = 0 THEN 0 ELSE holdings[u][i].quantity

RECURSIVE LedgerBalance(_, _, _)
\* the balance that the transactions of u recorded in log give, starting from start
LedgerBalance(u, log, start) ==
    IF log = << >> THEN start
    ELSE LET tx == log[Len(log)]
             rest == LedgerBalance(u, SubSeq(log, 1, Len(log) - 1), start)
         IN  IF tx.user # u THEN rest
             ELSE IF tx.action = BUY THEN rest - tx.total_amount
             ELSE rest + tx.total_amount

\* this step answers a request
Answers == last' # last

\* this step commits a trade
Settles == Len(txlog') = Len(txlog) + 1

Waiting(r) == req[r].pc \in {"gather", "history2"}

\* C1: every portfolio has cash >= 0 and every stored holding has quantity > 0,
\* after any sequence of trades through either route and of portfolio reads.
C1_CashAndQuantityInvariant ==
    \A u \in Users :
        /\ HasPortfolio(u) => Cash(u) >= 0
        /\ \A i \in 1..Len(holdings[u]) : holdings[u][i].quantity > 0

\* C2: when the MaxTx concurrent BUY orders of one share at BurstPrice have all been
\* answered, each has succeeded, the cash is 0 and MaxTx shares are held.
C2_BurstSettlesExactly ==
    /\ last.op = "trade_v2" => last.res.code = 200
    /\ (Len(txlog) = MaxTx /\ \A r \in Req : ~Waiting(r)) =>
           /\ Cash("u1") = 0
           /\ Held("u1", AAPL) = MaxTx

\* C3: trades on one portfolio are serialized: the stored cash is the starting cash
\* minus the recorded BUY totals plus the recorded SELL totals.
C3_CashMatchesLedger ==
    \A u \in Users : HasPortfolio(u) => Cash(u) = LedgerBalance(u, txlog, DefaultCash)

\* C4: callers of get_real_time_price that wait for the same symbol share one
\* upstream fetch: at most one fetch per symbol is in flight.
C4_SingleFlight ==
    \A s \in Tickers :
        Cardinality({r \in Req : Waiting(r) /\ Upper(req[r].symbol) = s}) <= 1

\* C5: get_real_time_price and get_chart_data always answer; when the upstream
\* failed or was empty the quote is synthetic (source "mock") with price > 0, and
\* the chart is synthetic too.
C5_FallbackAlwaysAnswers ==
    /\ last.op \in {"price", "chart"} => last.res.code = 200 /\ last.res.body # NoBody
    /\ (last.op = "price" /\ last.res.path = "mock") =>
           last.res.body.price > 0 /\ last.res.body.source = "mock"
    /\ (last.op = "chart" /\ last.res.path = "mock") =>
           last.res.body.source = "mock" /\ last.res.body.first_price > 0

C5_Witness ==
    /\ last.op = "price"
    /\ last.res.path = "mock"
    /\ last.res.body.price > 0
    /\ last.res.body.change < 0

\* C6: a synthetic fallback quote is stored in the cache under its key when it is
\* returned, and so is a synthetic chart.
C6_FallbackIsCached ==
    [][/\ (Answers /\ last'.op = "price" /\ last'.res.path = "mock") =>
              cache'[Upper(last'.symbol)] = Entry(last'.res.body, now)
       /\ (Answers /\ last'.op = "chart" /\ last'.res.path = "mock") =>
              chartCache'[<<last'.symbol, last'.period>>] = Entry(last'.res.body, now)]_vars

\* C7: two get_real_time_price calls for one symbol answered within the TTL window
\* of the first quote return the same quote.
C7_SameQuoteWithinTTL ==
    [][(/\ last.op = "price"
        /\ last'.op = "price"
        /\ Upper(last'.symbol) = Upper(last.symbol)
        /\ now - last.res.body.timestamp < QuoteTTL)
       => last'.res.body = last.res.body]_vars

\* C8: a get_real_time_price call that finds an entry younger than the TTL returns
\* it and starts no upstream call; an entry whose age has reached the TTL is never
\* returned.
C8_FreshServedStaleNever ==
    [][\A s \in Symbols :
        LET entry == cache[Upper(s)]
        IN  /\ (fetches'[Upper(s)] # fetches[Upper(s)]) => ~Fresh(entry, now)
            /\ (Answers /\ last'.op = "price" /\ last'.symbol = s /\ req' = req) =>
                   /\ Fresh(entry, now)
                   /\ last'.res.body = entry.data
                   /\ fetches' = fetches
            /\ (Answers /\ last'.op = "price" /\ last'.symbol = s
                    /\ entry # None /\ now - entry.timestamp >= QuoteTTL) =>
                   last'.res.body # entry.data]_vars

C8_Witness ==
    /\ last.op = "price"
    /\ last.res.path = "cache"
    /\ last.at > last.res.body.timestamp
    /\ last.at - last.res.body.timestamp < QuoteTTL

\* the prices get_real_time_price can hand out for a ticker in the next state
QuoteServicePrices(sym) ==
    {q.price : q \in MockQuotes(sym, now)}
        \cup (IF cache'[sym] # None THEN {cache'[sym].data.price} ELSE {})

\* C9: every settled trade moves the cash by quantity x the price of the quote
\* service for the symbol and records that price and total.
C9_SettlesAtQuotePrice ==
    [][Settles =>
        LET tx == txlog'[Len(txlog')]
        IN  /\ tx.price \in QuoteServicePrices(tx.symbol)
            /\ tx.total_amount = tx.quantity * tx.price
            /\ portfolios'[tx.user][1].cash = IF tx.action = BUY
                                THEN Cash(tx.user) - tx.total_amount
                                ELSE Cash(tx.user) + tx.total_amount]_vars

\* what execute_trade_v2 does for a waiting request when its quote arrives
V2Effect(rq, current_price, hs) ==
    LET out == V2Outcome(rq, current_price, hs)
    IN  [code |-> V2Response(rq, current_price, out, "").code,
         cash |-> out.cash, hs |-> out.hs, tx |-> out.tx]

\* C10: the client price does not change the outcome of execute_trade_v2: for any
\* waiting request and any quote, every client price gives the same response code,
\* cash, holdings and transaction.
C10_ClientPriceIrrelevant ==
    \A r \in Req : (Waiting(r) /\ req[r].op = "trade_v2") =>
        \A p \in ClientPrices, b \in UpstreamBars :
            V2Effect([req[r] EXCEPT !.price = p], b[2], holdings[req[r].user])
                = V2Effect(req[r], b[2], holdings[req[r].user])

----------------------------------------------------------------------------
(* Properties of the settlement *)

TradeOps == {"trade", "trade_v2"}

\* this step answers a trade request, and the answer is the one in last'
AnswersTrade == last' # last /\ last'.op \in TradeOps

\* the request answered in last' was settled
Succeeded == last'.res.detail = "success"

\* C11: a trade request that fails, for whatever reason, leaves the cash, the
\* holdings and the transaction log of the portfolio as they were.
C11_FailedTradeChangesNothing ==
    [][(AnswersTrade /\ ~Succeeded) => UNCHANGED <<portfolios, holdings, txlog>>]_vars

\* a trade failed inside the BUY branch, after the debit of the session's row
C11_Witness ==
    /\ last.op = "trade"
    /\ last.res.detail = "swallowed"
    /\ Upper(last.action) = BUY
    /\ last.quantity # 0

\* C12: a settled BUY of q at p on a holding (Q, A) leaves quantity Q + q and
\* average cost (A*Q + q*p) / (Q + q); on a symbol not held it creates the
\* holding (q, p).
C12_WeightedAverageCost ==
    [][(Settles /\ txlog'[Len(txlog')].action = BUY) =>
        LET tx == txlog'[Len(txlog')]
            i == FirstHolding(holdings[tx.user], tx.symbol)
            j == FirstHolding(holdings'[tx.user], tx.symbol)
            old == holdings[tx.user][i]
            new == holdings'[tx.user][j]
        IN  /\ j # 0
            /\ i = 0 => /\ new.quantity = tx.quantity
                        /\ new.avg_price = <<tx.price, 1>>
            /\ i # 0 => /\ new.quantity = old.quantity + tx.quantity
                        /\ new.avg_price =
                             Reduce(<<old.avg_price[1] * old.quantity
                                        + tx.quantity * tx.price * old.avg_price[2],
                                      old.avg_price[2] * (old.quantity + tx.quantity)>>)]_vars

\* two BUY orders at different prices have been settled into one holding
C12_Witness ==
    /\ Len(txlog) = 2
    /\ txlog[1].action = BUY /\ txlog[2].action = BUY
    /\ txlog[1].quantity > 0 /\ txlog[2].quantity > 0
    /\ txlog[1].price # txlog[2].price
    /\ Held("u1", AAPL) = txlog[1].quantity + txlog[2].quantity

\* C13: a SELL that brings a holding to zero leaves no holding for the symbol
\* (so that a following SELL of it fails with insufficient shares).
C13_SoldOutHoldingIsGone ==
    [][(/\ Settles
        /\ txlog'[Len(txlog')].action = SELL
        /\ Held(txlog'[Len(txlog')].user, txlog'[Len(txlog')].symbol)
               = txlog'[Len(txlog')].quantity)
       => FirstHolding(holdings'[txlog'[Len(txlog')].user],
                       txlog'[Len(txlog')].symbol) = 0]_vars

\* C14: the transaction log grows by exactly one record, the record of the trade,
\* with each settled trade, by none with a failed trade or any other step, and no
\* record in it is changed or removed.
C14_LogAppendOnly ==
    [][/\ Len(txlog') >= Len(txlog)
       /\ SubSeq(txlog', 1, Len(txlog)) = txlog
       /\ Len(txlog') <= Len(txlog) + 1
       /\ Settles => /\ last'.op \in TradeOps
                     /\ Succeeded
                     /\ txlog'[Len(txlog')].user = last'.user
                     /\ txlog'[Len(txlog')].action = Upper(last'.action)
                     /\ txlog'[Len(txlog')].symbol = Upper(last'.symbol)
                     /\ txlog'[Len(txlog')].quantity = last'.quantity
       /\ (AnswersTrade /\ Succeeded) => Settles
       /\ (AnswersTrade /\ ~Succeeded) => txlog' = txlog]_vars

\* a trade failed after another was settled
C14_Witness ==
    /\ Len(txlog) = 1
    /\ last.op \in TradeOps
    /\ last.res.detail = "Insufficient shares"

\* the order in last' passes the checks of a valid order
ValidOrder(rq) ==
    /\ rq.symbol # << >>
    /\ Upper(rq.action) \in {BUY, SELL}
    /\ rq.quantity > 0

\* C15: a trade request whose quantity is not above 0, or whose side is neither BUY
\* nor SELL, is answered with the invalid-order error, through both routes.
C15_InvalidOrderRejected ==
    (last.op \in TradeOps /\ (last.quantity <= 0 \/ Upper(last.action) \notin {BUY, SELL}))
        => /\ last.res.code = 400
           /\ last.res.detail \in {"Invalid trade parameters", "Invalid action"}

\* the prices a route can execute the order of rq at, as the next state shows them
ExecutablePrices(rq) ==
    IF rq.op = "trade" THEN {GetStockPrice(rq.symbol)} ELSE QuoteServicePrices(Upper(rq.symbol))

\* C16: a BUY is settled exactly when the cash the portfolio holds at that moment
\* covers quantity x executed price, and then the cash goes down by that amount
\* (to 0 when they are equal); otherwise it fails with insufficient funds.
C16_BuyNeedsFunds ==
    [][/\ (Settles /\ txlog'[Len(txlog')].action = BUY) =>
              LET tx == txlog'[Len(txlog')]
              IN  /\ Cash(tx.user) >= tx.total_amount
                  /\ portfolios'[tx.user][1].cash = Cash(tx.user) - tx.total_amount
       /\ (AnswersTrade /\ last'.res.detail = "Insufficient funds") =>
              \E p \in ExecutablePrices(last') :
                  Cash(last'.user) < last'.quantity * p
       /\ (AnswersTrade /\ ValidOrder(last') /\ Upper(last'.action) = BUY
               /\ HasPortfolio(last'.user) /\ ~Succeeded) =>
              last'.res.detail = "Insufficient funds"]_vars

\* C17: a SELL is settled exactly when the portfolio has a holding of the symbol
\* with at least the requested quantity; otherwise it fails with insufficient
\* shares.
C17_SellNeedsShares ==
    [][/\ (Settles /\ txlog'[Len(txlog')].action = SELL) =>
              LET tx == txlog'[Len(txlog')]
                  i == FirstHolding(holdings[tx.user], tx.symbol)
              IN  i # 0 /\ holdings[tx.user][i].quantity >= tx.quantity
       /\ (AnswersTrade /\ ValidOrder(last') /\ Upper(last'.action) = SELL
               /\ HasPortfolio(last'.user)) =>
              LET i == FirstHolding(holdings[last'.user], Upper(last'.symbol))
              IN  IF i # 0 /\ holdings[last'.user][i].quantity >= last'.quantity
                  THEN Succeeded
                  ELSE last'.res.detail = "Insufficient shares"]_vars

\* C18: a valid trade request of a user without a portfolio creates the portfolio
\* and settles against it; no user has more than one portfolio, and a portfolio
\* that exists stays.
C18_PortfolioCreatedOnFirstTrade ==
    [][/\ (AnswersTrade /\ ValidOrder(last') /\ ~HasPortfolio(last'.user)) =>
              /\ Len(portfolios'[last'.user]) = 1
              /\ last'.res.code # 404
       /\ \A u \in Users : Len(portfolios'[u]) <= 1
       /\ \A u \in Users : HasPortfolio(u) => Len(portfolios'[u]) = 1]_vars

----------------------------------------------------------------------------
(* Properties of the lookups and of the market clock *)

\* request r starts an upstream quote fetch in this step
StartsFetch(r) == req[r].pc = "idle" /\ req'[r].pc = "gather"

\* C19: lookups are case-insensitive: a quote fetch for a symbol starts only when
\* the cache holds no fresh entry for its uppercase form, and a chart fetch for a
\* symbol and period starts only when the cache holds no fresh chart of that period
\* for any spelling of the symbol.
C19_CaseInsensitiveLookups ==
    [][/\ \A r \in Req : StartsFetch(r) => ~Fresh(cache[Upper(req'[r].symbol)], now)
       /\ \A s \in Symbols, p \in Periods :
              chartFetches'[<<s, p>>] > chartFetches[<<s, p>>] =>
                  \A s2 \in Symbols :
                      Upper(s2) = Upper(s) => ~FreshChart(chartCache[<<s2, p>>], now)]_vars

\* minutes since midnight
MinuteOfDay(hour, minute) == hour * 60 + minute

\* C20: get_market_status reports is_open exactly on Monday to Friday from 09:30
\* up to, not including, 16:00.
C20_OpenOnTradingHours ==
    last.op = "market" =>
        LET b == last.res.body
        IN  b.is_open <=> /\ b.weekday \in 0..4
                          /\ MinuteOfDay(b.hour, b.minute) >= MinuteOfDay(9, 30)
                          /\ MinuteOfDay(b.hour, b.minute) < MinuteOfDay(16, 0)

\* C21: next_open is 09:30 of the next Monday on a Saturday or Sunday, 09:30 of
\* the following day on a weekday at or after 16:00, and 09:30 of the same day on a
\* weekday before the open.
C21_NextOpenByCase ==
    last.op = "market" =>
        LET b == last.res.body
            n == b.next_open
            t == MinuteOfDay(b.hour, b.minute)
        IN  /\ n.hour = 9 /\ n.minute = 30
            /\ b.weekday \in {5, 6} => n.days = 7 - b.weekday /\ n.weekday = 0
            /\ (b.weekday \in 0..4 /\ t >= MinuteOfDay(16, 0)) => n.days = 1
            /\ (b.weekday \in 0..4 /\ t < MinuteOfDay(9, 30)) => n.days = 0

\* the status was asked on a Saturday, and the next open is two days later
C21_Witness ==
    /\ last.op = "market"
    /\ last.res.body.weekday = 5
    /\ last.res.body.next_open.days = 2
    /\ last.res.body.next_open.weekday = 0

\* C28: when get_market_status reports the market closed, the next_open it returns
\* is later than the time of the request.
C28_NextOpenAfterNow ==
    (last.op = "market" /\ ~last.res.body.is_open) =>
        LET b == last.res.body
            n == b.next_open
        IN  \/ n.days > 0
            \/ MinuteOfDay(n.hour, n.minute) > MinuteOfDay(b.hour, b.minute)

\* C29: the next_open of _get_next_market_open is on a day from Monday to Friday.
C29_NextOpenOnTradingDay ==
    last.op = "market" => last.res.body.next_open.weekday \in 0..4

----------------------------------------------------------------------------
(* Properties of the holdings *)

RECURSIVE NetQuantity(_, _, _)
\* the quantity of symbol that the transactions of u recorded in log leave:
\* the BUY quantities minus the SELL quantities
NetQuantity(u, symbol, log) ==
    IF log = << >> THEN 0
    ELSE LET tx == log[Len(log)]
             rest == NetQuantity(u, symbol, SubSeq(log, 1, Len(log) - 1))
         IN  IF tx.user # u \/ tx.symbol # symbol THEN rest
             ELSE IF tx.action = BUY THEN rest + tx.quantity
             ELSE rest - tx.quantity

\* C23: every holding of a portfolio has the quantity its recorded BUY orders less
\* its recorded SELL orders give, after any trades and portfolio reads, and a
\* portfolio read creates or changes no holding.
C23_HoldingsComeFromBuys ==
    [][/\ \A u \in Users : \A i \in DOMAIN holdings'[u] :
              holdings'[u][i].quantity = NetQuantity(u, holdings'[u][i].symbol, txlog')
       /\ (Answers /\ last'.op = "portfolio") => holdings' = holdings]_vars

\* C24: a settled SELL credits the cash by quantity x executed price, takes the
\* quantity from the holding of the sold symbol, and leaves the average cost of
\* that holding and every other holding as they were.
C24_SellFrame ==
    [][(Settles /\ txlog'[Len(txlog')].action = SELL) =>
        LET tx == txlog'[Len(txlog')]
            hs == holdings[tx.user]
            i == FirstHolding(hs, tx.symbol)
        IN  /\ i # 0
            /\ portfolios'[tx.user][1].cash = Cash(tx.user) + tx.quantity * tx.price
            /\ holdings'[tx.user] =
                   IF hs[i].quantity = tx.quantity
                   THEN RemoveAt(hs, i)
                   ELSE [hs EXCEPT ![i].quantity = @ - tx.quantity]]_vars

\* C25: a portfolio has at most one holding per symbol, symbols compared in
\* uppercase, after any interleaving of trade requests and portfolio reads.
C25_OneHoldingPerSymbol ==
    \A u \in Users : \A i, j \in DOMAIN holdings[u] :
        i # j => Upper(holdings[u][i].symbol) # Upper(holdings[u][j].symbol)

\* a BUY of a symbol already held, next to a holding of another symbol, was
\* settled into the row of its symbol
C25_Witness ==
    /\ Len(holdings["u1"]) = 2
    /\ Len(txlog) >= 1
    /\ txlog[Len(txlog)].action = BUY
    /\ \E i \in DOMAIN holdings["u1"] :
           /\ holdings["u1"][i].symbol = txlog[Len(txlog)].symbol
           /\ holdings["u1"][i].quantity > txlog[Len(txlog)].quantity

\* C30: a trade request is answered with success = true only when its trade was
\* committed: one transaction was appended, with the price and the total amount of
\* the response, and the stored cash is the remaining cash of the response; a
\* trade that an internal error rolled back is answered with an error.
C30_SuccessMeansCommitted ==
    [][(AnswersTrade /\ last'.res.body # NoBody /\ last'.res.body.success) =>
        /\ Settles
        /\ txlog'[Len(txlog')].price = last'.res.body.executed_price
        /\ txlog'[Len(txlog')].total_amount = last'.res.body.total_amount
        /\ portfolios'[last'.user][1].cash = last'.res.body.remaining_cash]_vars

----------------------------------------------------------------------------
(* Properties of the waits *)

\* C22: every get_real_time_price and get_chart_data call eventually returns,
\* with the synthetic fallback when the upstream does not answer in time: no
\* request stays waiting forever.
C22_EveryCallReturns ==
    \A r \in Req : (req[r].pc # "idle") ~> (req[r].pc = "idle")

----------------------------------------------------------------------------
(* Properties of the synthetic generator *)

\* C26: the synthetic generator answers for every symbol, the empty string among
\* them, and every period, and the price of its quote and every price of its
\* chart series are greater than 0.
C26_SyntheticPricesPositive ==
    /\ last.op = "mock_price" => last.res.code = 200 /\ last.res.body.price > 0
    /\ last.op = "mock_chart" =>
           /\ last.res.code = 200
           /\ Len(last.res.body.series) = Points(last.period)
           /\ \A i \in DOMAIN last.res.body.series : last.res.body.series[i] > 0

\* a series for the empty symbol fell to the lowest price
C26_Witness ==
    /\ last.op = "mock_chart"
    /\ last.symbol = EmptySym
    /\ \E i \in DOMAIN last.res.body.series : last.res.body.series[i] = PriceFloor

\* C27: for every period among 1D, 1W, 1M, 3M and 1Y the synthetic chart has as
\* many labels as prices.
C27_LabelsMatchPrices ==
    (last.op = "mock_chart" /\ last.period \in ChartPeriods) =>
        /\ last.res.body.labels = Len(last.res.body.series)
        /\ last.res.body.labels = last.res.body.prices

====
